---------------------------- MODULE Spec2Model ----------------------------
(***************************************************************************)
(* A model of bee-bytes: the K value runtime (k.rs), the dyadic arithmetic *)
(* verbs (va.rs) and the Swarm broadcast/gather query engine (seeder.rs).  *)
(*                                                                         *)
(* Numbers.  An i64 is a TLA+ integer.  An f64 is a fixed-point number: the *)
(* integer x stands for x / Unit.  A product of two floats is scaled back  *)
(* by Unit and rounded to a multiple of 1 / Unit, as an f64 product is     *)
(* rounded to the nearest f64.                                             *)
(*                                                                         *)
(* A panic of the Rust code is a value [ok |-> FALSE, err |-> message]; a  *)
(* normal return is [ok |-> TRUE, ...].                                    *)
(***************************************************************************)
EXTENDS Integers, Sequences, FiniteSets, TLC

\* ------------------------------------------------------------------------
\* Bounds of the model
\* ------------------------------------------------------------------------

\* Longest piece list handed to Swarm::from_pieces.
MaxPieces == 3

\* Largest worker count std::thread::available_parallelism may report.
MaxThreads == 2

\* Largest top_k passed to Swarm::query.
MaxTopK == 2

\* Longest integer or float array handed to a verb of va.rs.
MaxCount == 3

\* Longest list handed to a verb of va.rs.
MaxListLen == 2

\* ------------------------------------------------------------------------
\* k.rs: the K object
\* ------------------------------------------------------------------------

\* f64 as fixed point: the float 1.0.
Unit == 10000

\* A conversion that keeps the integer's digits as the float's.
i2fRaw(x) == x

\* K::i2f: x as f64.
i2f(x) == x * Unit

\* f64 multiplication x * y.
FMul(x, y) == (x * y) \div Unit

\* K::from_ints
from_ints(v) == [t |-> 1, n |-> Len(v), data |-> [tag |-> "Ints", v |-> v]]

\* K::from_floats
from_floats(v) == [t |-> 2, n |-> Len(v), data |-> [tag |-> "Floats", v |-> v]]

\* K::ki
ki(x) == [t |-> -1, n |-> 1, data |-> [tag |-> "Ints", v |-> <<x>>]]

\* K::kf
kf(x) == [t |-> -2, n |-> 1, data |-> [tag |-> "Floats", v |-> <<x>>]]

\* K::from_list
from_list(v) == [t |-> 0, n |-> Len(v), data |-> [tag |-> "List", v |-> v]]

\* A panic with its message.
Panic(msg) == [ok |-> FALSE, err |-> msg]

\* A normal return of a K.
Ok(k) == [ok |-> TRUE, k |-> k]

\* The kind a panic message names: its text before the colon.
ErrorKind(msg) ==
    CASE msg \in { "length error: atoms mismatch",
                   "length error: lists mismatch (matrices must have same rows)",
                   "length error: incompatible shapes" } -> "length error"
      [] msg \in { "type error produced invalid type",
                   "type error: expected int data",
                   "type error: expected float data",
                   "type error: unsupported types" } -> "type error"
      [] OTHER -> msg

\* K::ki_data: the integer slice, or a panic when the payload is not Ints.
ki_data(a) ==
    IF a.data.tag = "Ints" THEN [ok |-> TRUE, v |-> a.data.v]
    ELSE Panic("type error: expected int data")

\* K::kf_data: the float slice, or a panic when the payload is not Floats.
kf_data(a) ==
    IF a.data.tag = "Floats" THEN [ok |-> TRUE, v |-> a.data.v]
    ELSE Panic("type error: expected float data")

Abs(x) == IF x < 0 THEN -x ELSE x

Max(x, y) == IF x >= y THEN x ELSE y

Min(x, y) == IF x <= y THEN x ELSE y

\* ------------------------------------------------------------------------
\* va.rs: scalar_init
\* ------------------------------------------------------------------------

\* An output length taken from the left operand.
OutCountLeft(an, bn) == an

\* The output length zn (line 71).
OutCount(an, bn) == Max(an, bn)

\* An output type that is an atom's as soon as one operand is an atom.
OutTypeEitherAtom(at, bt, zn) ==
    LET typ == Max(Abs(at), Abs(bt))
        zt1 == IF zn > 1 THEN Abs(typ)
               ELSE IF at < 0 \/ bt < 0 THEN -Abs(typ) ELSE Abs(typ)
    IN  IF at = 0 \/ bt = 0 THEN 0 ELSE zt1

\* The output type zt of scalar_init (lines 73-94), given the resolved zn.
OutType(at, bt, zn) ==
    LET typ == Max(Abs(at), Abs(bt))
        zt1 == IF zn > 1 THEN Abs(typ)
               ELSE IF at < 0 /\ bt < 0 THEN -Abs(typ) ELSE Abs(typ)
    IN  IF at = 0 \/ bt = 0 THEN 0 ELSE zt1

scalar_init(a, b) ==
    LET at == a.t
        an == a.n
        bt == b.t
        bn == b.n
        zn == OutCount(an, bn)
        zt == OutType(at, bt, zn)
    IN  IF at < 0 /\ bt < 0 /\ an # bn
          THEN Panic("length error: atoms mismatch")
        ELSE IF at = 0 /\ bt = 0 /\ an # bn
          THEN Panic("length error: lists mismatch (matrices must have same rows)")
        ELSE IF an # bn /\ an # 1 /\ bn # 1
          THEN Panic("length error: incompatible shapes")
        ELSE IF ~(Abs(zt) <= 2)
          THEN Panic("type error produced invalid type")
        ELSE [ok |-> TRUE, at |-> at, an |-> an, bt |-> bt, bn |-> bn,
              zt |-> zt, zn |-> zn]

\* ------------------------------------------------------------------------
\* va.rs: the element loops (SCALAR_OP_CASE / SCALAR_EXPR_CASE)
\* ------------------------------------------------------------------------

\* Sum of a sequence of numbers (v.iter().sum(), and acc += ...).
RECURSIVE SeqSum(_)
SeqSum(s) == IF s = <<>> THEN 0 ELSE s[1] + SeqSum(Tail(s))

\* The operator closures times/plus/minus pass to dyadic_scalar, by verb:
\* op_ff on floats (va.rs 305, 495, 522).
OpF(verb, x, y) ==
    CASE verb = "times" -> FMul(x, y)
      [] verb = "plus"  -> x + y
      [] verb = "minus" -> x - y

\* op_ii on integers (va.rs 304, 494, 521).
OpI(verb, x, y) ==
    CASE verb = "times" -> x * y
      [] verb = "plus"  -> x + y
      [] verb = "minus" -> x - y

\* The operator of a loop: kind "f" applies op_ff, kind "i" applies op_ii.
Op(kind, verb, x, y) == IF kind = "f" THEN OpF(verb, x, y) ELSE OpI(verb, x, y)

\* A loop whose singleton case reads y[0] on every round.
ElementLoopNoStride(x, y, an, bn, zn, kind, verb) ==
    IF an = bn THEN
        IF zn <= Len(x) /\ zn <= Len(y)
          THEN [ok |-> TRUE, v |-> [i \in 1..zn |-> Op(kind, verb, x[i], y[i])]]
          ELSE Panic("index out of bounds")
    ELSE IF an = 1 THEN
        IF Len(x) >= 1 /\ zn <= Len(y)
          THEN [ok |-> TRUE, v |-> [i \in 1..zn |-> Op(kind, verb, x[1], y[1])]]
          ELSE Panic("index out of bounds")
    ELSE
        IF Len(y) >= 1 /\ zn <= Len(x)
          THEN [ok |-> TRUE, v |-> [i \in 1..zn |-> Op(kind, verb, x[i], y[1])]]
          ELSE Panic("index out of bounds")

\* The three broadcasting cases over slices x and y: element i of the result
\* is the operator applied to the selected elements.  Indexing past the end
\* of a slice panics, as Rust's bounds check does; a[0] and b[0] are read
\* before the loop starts.
ElementLoop(x, y, an, bn, zn, kind, verb) ==
    IF an = bn THEN
        IF zn <= Len(x) /\ zn <= Len(y)
          THEN [ok |-> TRUE, v |-> [i \in 1..zn |-> Op(kind, verb, x[i], y[i])]]
          ELSE Panic("index out of bounds")
    ELSE IF an = 1 THEN
        IF Len(x) >= 1 /\ zn <= Len(y)
          THEN [ok |-> TRUE, v |-> [i \in 1..zn |-> Op(kind, verb, x[1], y[i])]]
          ELSE Panic("index out of bounds")
    ELSE
        IF Len(y) >= 1 /\ zn <= Len(x)
          THEN [ok |-> TRUE, v |-> [i \in 1..zn |-> Op(kind, verb, x[i], y[1])]]
          ELSE Panic("index out of bounds")

scalar_op_f64(a, b, an, bn, zn, verb) == ElementLoop(a, b, an, bn, zn, "f", verb)

scalar_op_i64(a, b, an, bn, zn, verb) == ElementLoop(a, b, an, bn, zn, "i", verb)

\* bi.iter().map(|&x| K::i2f(x)).collect()
MapI2F(v) == [i \in 1..Len(v) |-> i2f(v[i])]

\* The slice of operand a as the loop of a float result reads it: kF(a), or
\* kI(a) converted by I2F.
FloatView(a) ==
    IF Abs(a.t) = 2 THEN kf_data(a)
    ELSE LET d == ki_data(a)
         IN  IF d.ok THEN [ok |-> TRUE, v |-> MapI2F(d.v)] ELSE d

\* The numeric branches shared by dyadic_scalar and dot (va.rs 220-254 and
\* 366-457): the element-wise results of the verb, as floats when either
\* operand is of float kind and as integers when both are of integer kind.
NumericLoop(a, b, s, verb) ==
    IF Abs(s.at) = 1 /\ Abs(s.bt) = 1 THEN
        LET ai == ki_data(a)
            bi == ki_data(b)
        IN  IF ~ai.ok THEN ai
            ELSE IF ~bi.ok THEN bi
            ELSE scalar_op_i64(ai.v, bi.v, s.an, s.bn, s.zn, verb)
    ELSE
        LET af == FloatView(a)
            bf == FloatView(b)
        IN  IF ~af.ok THEN af
            ELSE IF ~bf.ok THEN bf
            ELSE scalar_op_f64(af.v, bf.v, s.an, s.bn, s.zn, verb)

\* Both operands are of numeric kind (|t| in {1, 2}).
BothNumeric(s) == Abs(s.at) \in {1, 2} /\ Abs(s.bt) \in {1, 2}

\* A collection that gathers the results last to first.
CollectListReversed(rs) ==
    IF \E i \in 1..Len(rs) : ~rs[i].ok
      THEN rs[CHOOSE i \in 1..Len(rs) :
                  ~rs[i].ok /\ \A j \in 1..(i - 1) : rs[j].ok]
      ELSE Ok(from_list([i \in 1..Len(rs) |-> rs[Len(rs) + 1 - i].k]))

\* The results of a list recursion collected into K::from_list; the first
\* panicking element panics the whole call.
CollectList(rs) ==
    IF \E i \in 1..Len(rs) : ~rs[i].ok
      THEN rs[CHOOSE i \in 1..Len(rs) :
                  ~rs[i].ok /\ \A j \in 1..(i - 1) : rs[j].ok]
      ELSE Ok(from_list([i \in 1..Len(rs) |-> rs[i].k]))

\* ------------------------------------------------------------------------
\* va.rs: dyadic_scalar, times, plus, minus
\* ------------------------------------------------------------------------

RECURSIVE dyadic_scalar(_, _, _)
dyadic_scalar(a, b, verb) ==
    LET s == scalar_init(a, b)
    IN  IF ~s.ok THEN s
        ELSE IF BothNumeric(s) THEN
            LET z == NumericLoop(a, b, s, verb)
                tag == IF Abs(s.at) = 1 /\ Abs(s.bt) = 1 THEN "Ints" ELSE "Floats"
            IN  IF ~z.ok THEN z
                ELSE Ok([t |-> s.zt, n |-> s.zn, data |-> [tag |-> tag, v |-> z.v]])
        ELSE IF s.at = 0 \/ s.bt = 0 THEN
            IF a.data.tag = "List" /\ s.at = 0 /\ s.bt # 0 THEN
                CollectList([i \in 1..Len(a.data.v) |->
                                dyadic_scalar(a.data.v[i], b, verb)])
            ELSE IF b.data.tag = "List" /\ s.at # 0 /\ s.bt = 0 THEN
                CollectList([i \in 1..Len(b.data.v) |->
                                dyadic_scalar(a, b.data.v[i], verb)])
            ELSE IF a.data.tag = "List" /\ b.data.tag = "List" THEN
                IF Len(a.data.v) # Len(b.data.v)
                  THEN Panic("length mismatch in recursion")
                  ELSE CollectList([i \in 1..Len(a.data.v) |->
                                dyadic_scalar(a.data.v[i], b.data.v[i], verb)])
            ELSE Panic("recursion unreachable state")
        ELSE Panic("type error: unsupported types")

times(a, b) == dyadic_scalar(a, b, "times")

plus(a, b) == dyadic_scalar(a, b, "plus")

minus(a, b) == dyadic_scalar(a, b, "minus")

\* ------------------------------------------------------------------------
\* va.rs: dot
\* ------------------------------------------------------------------------

dot(a, b) ==
    LET s == scalar_init(a, b)
    IN  IF ~s.ok THEN s
        ELSE IF BothNumeric(s) THEN
            LET z == NumericLoop(a, b, s, "times")
            IN  IF ~z.ok THEN z
                ELSE IF Abs(s.at) = 1 /\ Abs(s.bt) = 1
                  THEN Ok(ki(SeqSum(z.v)))
                  ELSE Ok(kf(SeqSum(z.v)))
        ELSE IF Abs(s.at) = 0 \/ Abs(s.bt) = 0 THEN
            LET product == times(a, b)
            IN  IF ~product.ok THEN product
                ELSE IF product.k.data.tag = "Ints"
                  THEN Ok(ki(SeqSum(product.k.data.v)))
                ELSE IF product.k.data.tag = "Floats"
                  THEN Ok(kf(SeqSum(product.k.data.v)))
                ELSE Panic("dot: cannot sum general list")
        ELSE Panic("type error in _dot")

\* ------------------------------------------------------------------------
\* The Values handed to the verbs of va.rs
\* ------------------------------------------------------------------------

\* The sequences over S of length at most n.
SeqsUpTo(S, n) == UNION { [1..k -> S] : k \in 0..n }

\* Integer elements, and float elements -1.5 and 0.5.
IntElems == {-2, 3}

FloatElems == {-15000, 5000}

\* The atoms K::ki and K::kf build.
Atoms == { ki(x) : x \in IntElems } \cup { kf(x) : x \in FloatElems }

\* The arrays K::from_ints and K::from_floats build, the empty ones
\* included.
Arrays ==
    { from_ints(v) : v \in SeqsUpTo(IntElems, MaxCount) }
    \cup { from_floats(v) : v \in SeqsUpTo(FloatElems, MaxCount) }

\* The numeric Values.
Numerics == Atoms \cup Arrays

\* The lists K::from_list builds of atoms and arrays.
FlatLists ==
    { from_list(v) :
        v \in SeqsUpTo({ ki(3), kf(5000), from_ints(<<-2, 3>>) }, MaxListLen) }

\* Lists that hold lists.
NestedLists ==
    { from_list(v) :
        v \in SeqsUpTo({ from_list(<<ki(3), kf(5000)>>),
                         from_list(<<from_ints(<<-2, 3>>)>>),
                         kf(-15000) }, MaxListLen) }

\* K's fields are public: a struct literal can give an atom two elements.
Malformed ==
    { [t |-> -1, n |-> 2, data |-> [tag |-> "Ints", v |-> <<3, -2>>]],
      [t |-> -2, n |-> 2, data |-> [tag |-> "Floats", v |-> <<5000, 5000>>]] }

\* Every Value the verbs are called with.
Values == Numerics \cup FlatLists \cup NestedLists \cup Malformed

\* Operands a and b chosen, no verb called on them yet.
Operands(a, b) == [verb |-> "none", a |-> a, b |-> b, res |-> Ok(ki(0))]

\* No verb is called outside the Swarm.
NoCall == Operands(ki(0), ki(0))

\* ------------------------------------------------------------------------
\* piece.rs: the pieces the PieceManager hands to the Swarm
\* ------------------------------------------------------------------------

\* The chunk texts a directory may hold, each with its content hash
\* (hash_content) and its embedding over a three-term vocabulary
\* (compute_embedding: unit length, or all zero for a text with no term of
\* the vocabulary).  Texts 2 and 4 differ and share a hash: the hash is 64
\* bits of a longer text.
Corpus ==
    << [hash |-> 11, emb |-> <<10000, 0, 0>>],
       [hash |-> 22, emb |-> <<0, 10000, 0>>],
       [hash |-> 33, emb |-> <<8000, 6000, 0>>],
       [hash |-> 22, emb |-> <<0, 0, 0>>] >>

\* The Piece built from chunk i (0-based) holding text c
\* (from_directory_filtered: id is the chunk's index).
MakePiece(i, c) ==
    [id |-> i, hash |-> Corpus[c].hash, content |-> c,
     embedding |-> from_floats(Corpus[c].emb)]

\* manager.pieces for the chunk texts cs.
MakePieces(cs) == [i \in 1..Len(cs) |-> MakePiece(i - 1, cs[i])]

\* Every piece list of at most MaxPieces chunks.
PieceLists ==
    { MakePieces(cs) : cs \in UNION { [1..len -> 1..Len(Corpus)] : len \in 0..MaxPieces } }

\* The embeddings handed to query (query_embedding: &K).  Four are float
\* arrays of the length of the vocabulary of the pieces: the unit vectors of
\* a text of the first term and of a text of the first two terms and the
\* zero vector, as embed_query makes them, and 0.001 along the first term.
\* The fifth is a float array of another length, which the signature
\* accepts as it accepts any K.
QueryEmbeddings ==
    { from_floats(v) : v \in { <<10000, 0, 0>>, <<7071, 7071, 0>>,
                               <<0, 0, 0>>, <<10, 0, 0>>, <<10000, 0>> } }

\* ------------------------------------------------------------------------
\* seeder.rs: Swarm::from_pieces
\* ------------------------------------------------------------------------

\* The deduplication loop (lines 76-83) over the pieces still to visit.
RECURSIVE DedupLoop(_, _, _)
DedupLoop(rest, seen_hashes, unique_pieces) ==
    IF rest = <<>> THEN unique_pieces
    ELSE LET piece == Head(rest)
         IN  IF piece.hash \notin seen_hashes
               THEN DedupLoop(Tail(rest), seen_hashes \cup {piece.hash},
                              Append(unique_pieces, piece))
               ELSE DedupLoop(Tail(rest), seen_hashes, unique_pieces)

\* A deduplication that drops a piece only when the piece right before it
\* has its hash (Vec::dedup_by_key).
RECURSIVE DedupAdjacentLoop(_, _)
DedupAdjacentLoop(rest, unique_pieces) ==
    IF rest = <<>> THEN unique_pieces
    ELSE LET piece == Head(rest)
         IN  IF unique_pieces # <<>>
                /\ unique_pieces[Len(unique_pieces)].hash = piece.hash
               THEN DedupAdjacentLoop(Tail(rest), unique_pieces)
               ELSE DedupAdjacentLoop(Tail(rest), Append(unique_pieces, piece))

DedupAdjacent(ps) == DedupAdjacentLoop(ps, <<>>)

\* unique_pieces after the loop.
UniquePieces(ps) == DedupLoop(ps, {}, <<>>)

\* A chunk size that rounds down.
ChunkSizeFloor(total_pieces, n) == total_pieces \div n

\* Ceiling division (line 86).
ChunkSize(total_pieces, n) == (total_pieces + n - 1) \div n

\* The shard of worker i (lines 96-103).
ShardOf(unique_pieces, n, i) ==
    LET total_pieces == Len(unique_pieces)
        chunk_size == ChunkSize(total_pieces, n)
        start == i * chunk_size
        end == Min(start + chunk_size, total_pieces)
    IN  IF start < total_pieces
          THEN SubSeq(unique_pieces, start + 1, end)
          ELSE <<>>

\* ------------------------------------------------------------------------
\* seeder.rs: one worker's scan of its shard (lines 117-138)
\* ------------------------------------------------------------------------

\* The relevance floor 0.001.
Floor == Unit \div 1000

\* The score read from dot's result (lines 122-126).
ScoreOf(dot_res) ==
    IF dot_res.data.tag = "Floats" THEN dot_res.data.v[1]
    ELSE IF dot_res.data.tag = "Ints" THEN i2f(dot_res.data.v[1])
    ELSE 0

\* A floor that lets a score of exactly 0.001 through.
AtOrAboveFloor(score) == score >= Floor

\* A piece clears the floor (line 128).
AboveFloor(score) == score > Floor

\* The QueryResult of a piece (lines 129-136).
MakeResult(piece, score) ==
    [piece_id |-> piece.id, score |-> score, content |-> piece.content]

\* The scan loop over the pieces still to visit: the batch, or the panic of
\* the first dot that fails.
RECURSIVE ScanLoop(_, _, _)
ScanLoop(query, rest, local_results) ==
    IF rest = <<>> THEN [ok |-> TRUE, batch |-> local_results]
    ELSE LET piece == Head(rest)
             dot_res == dot(query, piece.embedding)
         IN  IF ~dot_res.ok THEN dot_res
             ELSE LET score == ScoreOf(dot_res.k)
                  IN  ScanLoop(query, Tail(rest),
                               IF AboveFloor(score)
                                 THEN Append(local_results, MakeResult(piece, score))
                                 ELSE local_results)

ScanShard(query, shard_pieces) == ScanLoop(query, shard_pieces, <<>>)

\* ------------------------------------------------------------------------
\* seeder.rs: the reduction of Swarm::query (lines 179-180)
\* ------------------------------------------------------------------------

\* The comparator of sort_by: b.score.partial_cmp(&a.score); TRUE when a is
\* ordered strictly before b.
Before(a, b) == a.score > b.score

\* Insertion of r into a sorted sequence after every element not ordered
\* after it: sort_by is stable.
RECURSIVE InsertStable(_, _)
InsertStable(sorted, r) ==
    IF sorted = <<>> THEN <<r>>
    ELSE IF Before(r, sorted[1]) THEN <<r>> \o sorted
    ELSE <<sorted[1]>> \o InsertStable(Tail(sorted), r)

RECURSIVE SortLoop(_, _)
SortLoop(rest, sorted) ==
    IF rest = <<>> THEN sorted
    ELSE SortLoop(Tail(rest), InsertStable(sorted, Head(rest)))

\* all_results.sort_by(...)
SortByScore(results) == SortLoop(results, <<>>)

\* all_results.truncate(top_k)
Truncate(results, top_k) == SubSeq(results, 1, Min(top_k, Len(results)))

\* ------------------------------------------------------------------------
\* The state of a running program
\* ------------------------------------------------------------------------

VARIABLES
    pieces,       \* manager.pieces, the input of Swarm::from_pieces
    num_threads,  \* Swarm.num_threads
    shard,        \* shard[w]: the pieces worker thread w owns
    inbox,        \* inbox[w]: the channel of SeederThread w (tx -> rx)
    outbox,       \* the result channel (result_tx clones -> result_rx)
    worker,       \* worker[w]: where thread w is in its loop
    call,         \* call[c]: caller c's activation of Swarm::query
    dropped,      \* the Swarm has been dropped
    va            \* the last call of a verb of va.rs: operands and outcome

vars == <<pieces, num_threads, shard, inbox, outbox, worker, call, dropped, va>>

\* The threads that may call query; the program's main thread is caller 1.
Callers == {1, 2}

\* The worker threads, numbered as the spawn loop numbers them.
Workers == 0..(num_threads - 1)

\* A caller that is not inside query.
IdleCall ==
    [pc |-> "idle", i |-> 0, query |-> from_floats(<<>>), top_k |-> 0,
     all_results |-> <<>>, ret |-> <<>>, got |-> <<>>]

\* The state Swarm::from_pieces leaves: shards cut, every thread spawned and
\* blocked in rx.recv().
Init ==
    /\ pieces \in PieceLists
    /\ num_threads \in 1..MaxThreads
    /\ shard = [w \in Workers |-> ShardOf(UniquePieces(pieces), num_threads, w)]
    /\ inbox = [w \in Workers |-> <<>>]
    /\ outbox = <<>>
    /\ worker = [w \in Workers |-> [pc |-> "recv", cmd |-> <<>>]]
    /\ call = [c \in Callers |-> IdleCall]
    /\ dropped = FALSE
    /\ va = NoCall

\* The receiving end of worker w's channel is gone: the thread has ended.
ReceiverGone(w) == worker[w].pc \in {"dead", "exited"}

\* Every clone of result_tx is gone: every thread has ended.
AllSendersGone == \A w \in Workers : ReceiverGone(w)

\* A gather loop that runs one round short.
GatherCountOneShort == num_threads - 1

\* Iterations of the gather loop (line 168).
GatherCount == num_threads

\* ------------------------------------------------------------------------
\* Swarm::query, one caller's steps
\* ------------------------------------------------------------------------

\* The call query(query_embedding, top_k).
StartQuery(c) ==
    /\ ~dropped
    /\ call[c].pc \in {"idle", "returned"}
    /\ \E q \in QueryEmbeddings, k \in 0..MaxTopK :
         call' = [call EXCEPT ![c] =
                    [pc |-> "broadcast", i |-> 0, query |-> q, top_k |-> k,
                     all_results |-> <<>>, ret |-> <<>>, got |-> <<>>]]
    /\ UNCHANGED <<pieces, num_threads, shard, inbox, outbox, worker, dropped, va>>

\* One iteration of the broadcast loop (lines 162-164): send Query to
\* seeder i; the Err of a send to an ended thread is ignored.
Broadcast(c) ==
    /\ call[c].pc = "broadcast"
    /\ LET w == call[c].i
           cmd == [query |-> call[c].query, from |-> c]
       IN  /\ inbox' = IF ReceiverGone(w) THEN inbox
                       ELSE [inbox EXCEPT ![w] = Append(@, cmd)]
           /\ call' = [call EXCEPT ![c] =
                         IF w + 1 < num_threads
                           THEN [@ EXCEPT !.i = w + 1]
                           ELSE [@ EXCEPT !.pc = "gather", !.i = 0]]
    /\ UNCHANGED <<pieces, num_threads, shard, outbox, worker, dropped, va>>

\* A gather loop that keeps the results of its own call's batches only.
GatherRecvOwnOnly(c) ==
    /\ call[c].pc = "gather"
    /\ call[c].i < GatherCount
    /\ \/ /\ outbox # <<>>
          /\ LET b == Head(outbox)
                 own == b.from = c /\ b.query = call[c].query
             IN  call' = [call EXCEPT ![c] =
                            [@ EXCEPT !.i = @ + 1,
                                      !.all_results =
                                          IF own THEN @ \o b.results ELSE @,
                                      !.got = Append(@, [worker |-> b.worker,
                                                         from |-> b.from,
                                                         query |-> b.query])]]
          /\ outbox' = Tail(outbox)
       \/ /\ outbox = <<>>
          /\ AllSendersGone
          /\ call' = [call EXCEPT ![c] = [@ EXCEPT !.i = @ + 1]]
          /\ outbox' = outbox
    /\ UNCHANGED <<pieces, num_threads, shard, inbox, worker, dropped, va>>

\* One iteration of the gather loop (lines 168-176): result_rx.recv() blocks
\* until a batch is queued or every sender is gone; an Err is skipped.
GatherRecv(c) ==
    /\ call[c].pc = "gather"
    /\ call[c].i < GatherCount
    /\ \/ /\ outbox # <<>>
          /\ LET b == Head(outbox)
             IN  call' = [call EXCEPT ![c] =
                            [@ EXCEPT !.i = @ + 1,
                                      !.all_results = @ \o b.results,
                                      !.got = Append(@, [worker |-> b.worker,
                                                         from |-> b.from,
                                                         query |-> b.query])]]
          /\ outbox' = Tail(outbox)
       \/ /\ outbox = <<>>
          /\ AllSendersGone
          /\ call' = [call EXCEPT ![c] = [@ EXCEPT !.i = @ + 1]]
          /\ outbox' = outbox
    /\ UNCHANGED <<pieces, num_threads, shard, inbox, worker, dropped, va>>

\* Sort, truncate and return (lines 179-182).
Return(c) ==
    /\ call[c].pc = "gather"
    /\ call[c].i >= GatherCount
    /\ call' = [call EXCEPT ![c] =
                  [@ EXCEPT !.pc = "returned",
                            !.ret = Truncate(SortByScore(call[c].all_results),
                                             call[c].top_k)]]
    /\ UNCHANGED <<pieces, num_threads, shard, inbox, outbox, worker, dropped, va>>

\* ------------------------------------------------------------------------
\* A worker thread (lines 111-144)
\* ------------------------------------------------------------------------

\* rx.recv() returns a command.
WorkerRecv(w) ==
    /\ worker[w].pc = "recv"
    /\ inbox[w] # <<>>
    /\ worker' = [worker EXCEPT ![w] = [pc |-> "scan", cmd |-> Head(inbox[w])]]
    /\ inbox' = [inbox EXCEPT ![w] = Tail(@)]
    /\ UNCHANGED <<pieces, num_threads, shard, outbox, call, dropped, va>>

\* The batch a worker sends for a command.
BatchOf(w, cmd, results) ==
    [results |-> results, worker |-> w, from |-> cmd.from, query |-> cmd.query]

\* A send that loses the batch.
SendBatchLost(queue, batch) == queue

\* What my_result_tx.send(batch) leaves in the result channel: the send
\* fails, and its Err is ignored, once result_rx is dropped.
SendBatch(queue, batch) == IF dropped THEN queue ELSE Append(queue, batch)

\* The scan of the shard and the send of the batch.  A panic of dot unwinds
\* the thread: its rx and its clone of result_tx are dropped.
WorkerScan(w) ==
    /\ worker[w].pc = "scan"
    /\ LET cmd == worker[w].cmd
           r == ScanShard(cmd.query, shard[w])
       IN  IF r.ok
             THEN /\ outbox' = SendBatch(outbox, BatchOf(w, cmd, r.batch))
                  /\ worker' = [worker EXCEPT ![w] = [pc |-> "recv", cmd |-> <<>>]]
                  /\ inbox' = inbox
             ELSE /\ outbox' = outbox
                  /\ worker' = [worker EXCEPT ![w] = [pc |-> "dead", cmd |-> cmd]]
                  /\ inbox' = [inbox EXCEPT ![w] = <<>>]
    /\ UNCHANGED <<pieces, num_threads, shard, call, dropped, va>>

\* A worker that takes the Err of recv for an empty queue and calls recv
\* again.
WorkerRetriesRecv(w) ==
    /\ worker[w].pc = "recv"
    /\ inbox[w] = <<>>
    /\ dropped
    /\ UNCHANGED vars

\* rx.recv() returns Err: the queue is empty and its sender is dropped; the
\* loop ends and the thread exits.
WorkerExit(w) ==
    /\ worker[w].pc = "recv"
    /\ inbox[w] = <<>>
    /\ dropped
    /\ worker' = [worker EXCEPT ![w] = [pc |-> "exited", cmd |-> <<>>]]
    /\ UNCHANGED <<pieces, num_threads, shard, inbox, outbox, call, dropped, va>>

\* The Swarm goes out of scope at the end of main: every SeederThread.tx
\* and result_rx are dropped.  No call of query is running (query borrows
\* the Swarm), and the results of the calls made, locals declared after the
\* Swarm, are gone before it.
DropSwarm ==
    /\ ~dropped
    /\ \A c \in Callers : call[c].pc \in {"idle", "returned"}
    /\ dropped' = TRUE
    /\ outbox' = <<>>
    /\ call' = [c \in Callers |-> IdleCall]
    /\ UNCHANGED <<pieces, num_threads, shard, inbox, worker, va>>

\* ------------------------------------------------------------------------
\* Specifications
\* ------------------------------------------------------------------------

\* One Swarm and one caller of query.
Next ==
    \/ StartQuery(1)
    \/ Broadcast(1)
    \/ GatherRecv(1)
    \/ Return(1)
    \/ \E w \in Workers : WorkerRecv(w)
    \/ \E w \in Workers : WorkerScan(w)
    \/ \E w \in Workers : WorkerExit(w)
    \/ DropSwarm

Spec == Init /\ [][Next]_vars

\* ------------------------------------------------------------------------
\* Calls of the verbs of va.rs, outside any Swarm
\* ------------------------------------------------------------------------

\* The outcome of verb applied to a and b.
Apply(verb, a, b) ==
    CASE verb = "scalar_init" -> scalar_init(a, b)
      [] verb = "times" -> times(a, b)
      [] verb = "plus" -> plus(a, b)
      [] verb = "minus" -> minus(a, b)
      [] verb = "dot" -> dot(a, b)

\* One call of a verb on the chosen operands: what the call returns or
\* panics with.
CallVerb(verb) ==
    /\ va.verb = "none"
    /\ va' = [va EXCEPT !.verb = verb, !.res = Apply(verb, va.a, va.b)]
    /\ UNCHANGED <<pieces, num_threads, shard, inbox, outbox, worker, call,
                   dropped>>

CallScalarInit == CallVerb("scalar_init")

CallTimes == CallVerb("times")

CallPlus == CallVerb("plus")

CallMinus == CallVerb("minus")

CallDot == CallVerb("dot")

\* The verbs called on their own, on any two Values, beside a Swarm of no
\* piece that is never queried.
InitVa ==
    /\ pieces = <<>>
    /\ num_threads = 1
    /\ shard = [w \in Workers |-> <<>>]
    /\ inbox = [w \in Workers |-> <<>>]
    /\ outbox = <<>>
    /\ worker = [w \in Workers |-> [pc |-> "recv", cmd |-> <<>>]]
    /\ call = [c \in Callers |-> IdleCall]
    /\ dropped = FALSE
    /\ \E a \in Values, b \in Values : va = Operands(a, b)

NextVa ==
    \/ CallScalarInit
    \/ CallTimes
    \/ CallPlus
    \/ CallMinus
    \/ CallDot

SpecVa == InitVa /\ [][NextVa]_vars

\* The Swarms shared by two callers: those of at most one piece and at
\* most two workers.  One piece is enough for the batches of two queries to
\* differ, and two workers for one caller to take both batches of one
\* worker.
InitTwo == Init /\ Len(pieces) <= 1 /\ num_threads <= 2

\* Caller c makes its one call of query, with an embedding of the
\* vocabulary's dimension (embed_query), on which no worker panics, and asks
\* for the longest ranking.
StartOnce(c) ==
    /\ call[c].pc = "idle"
    /\ StartQuery(c)
    /\ call'[c].query.n = 3
    /\ call'[c].top_k = MaxTopK

\* Two threads call query, once each, on one Swarm (&self) with no lock
\* around the call; the Swarm outlives both calls.
NextTwo ==
    \/ \E c \in Callers : StartOnce(c)
    \/ \E c \in Callers : Broadcast(c)
    \/ \E c \in Callers : GatherRecv(c)
    \/ \E c \in Callers : Return(c)
    \/ \E w \in Workers : WorkerRecv(w)
    \/ \E w \in Workers : WorkerScan(w)

SpecTwo == InitTwo /\ [][NextTwo]_vars

\* One step of worker thread w.
WorkerStep(w) ==
    /\ w \in Workers
    /\ WorkerRecv(w) \/ WorkerScan(w) \/ WorkerExit(w)

\* The operating system runs every thread that is ready to run: a worker
\* whose recv can return, or whose scan is under way, takes its step.
WorkerFairness == \A w \in 0..(MaxThreads - 1) : WF_vars(WorkerStep(w))

\* The Swarms of at most one piece.  How a worker leaves its loop depends
\* on its queue and on the drop, not on what its shard holds; one piece is
\* enough for a worker to scan, reply, or panic.
InitFair == Init /\ Len(pieces) <= 1

\* The program under fair scheduling of the worker threads.
SpecFair == InitFair /\ [][Next]_vars /\ WorkerFairness

\* One step of caller c inside query.
CallerStep(c) == Broadcast(c) \/ GatherRecv(c) \/ Return(c)

\* The program with its worker threads and the calling thread all scheduled
\* fairly: a call of query that can take its next step takes it.
SpecLive ==
    InitFair /\ [][Next]_vars /\ WorkerFairness /\ WF_vars(CallerStep(1))


\* ------------------------------------------------------------------------
\* Properties
\* ------------------------------------------------------------------------

\* Caller c's call of query has returned.
Returned(c) == call[c].pc = "returned"

\* Caller c is inside query.
InQuery(c) == call[c].pc \in {"broadcast", "gather"}

\* A command or a batch belongs to caller c's current call.
OfCall(c, x) == x.from = c /\ x.query = call[c].query

\* The batches of worker w for caller c's current call that exist: queued in
\* the result channel or already gathered by c.
BatchesFor(c, w) ==
    Cardinality({k \in 1..Len(outbox) :
                    outbox[k].worker = w /\ OfCall(c, outbox[k])})
    + Cardinality({k \in 1..Len(call[c].got) :
                    call[c].got[k].worker = w /\ OfCall(c, call[c].got[k])})

\* Worker w still holds a command of caller c's current call: queued in its
\* inbound channel, or taken and being scanned.
Pending(c, w) ==
    \/ \E k \in 1..Len(inbox[w]) : OfCall(c, inbox[w][k])
    \/ worker[w].pc = "scan" /\ OfCall(c, worker[w].cmd)

\* The broadcast loop of caller c's current call has sent to worker w.
SentTo(c, w) ==
    \/ call[c].pc \in {"gather", "returned"}
    \/ call[c].pc = "broadcast" /\ call[c].i > w

\* C1: with one coordinator, query does not return before it has received
\* one batch from each of the N workers for this call's embedding: in every
\* state where the call has returned, each worker's batch for this call is
\* among the batches gathered, exactly once, and no worker still holds the
\* call's command.
C1_GatherBarrier ==
    Returned(1) =>
        \A w \in Workers :
            /\ Cardinality({k \in 1..Len(call[1].got) :
                               call[1].got[k].worker = w
                               /\ OfCall(1, call[1].got[k])}) = 1
            /\ ~Pending(1, w)

\* A call returned by a swarm of two workers, having gathered a batch with
\* results and a batch from each worker.
C1_Witness ==
    /\ Returned(1)
    /\ num_threads = 2
    /\ Len(call[1].got) = 2
    /\ call[1].all_results # <<>>

\* C2: for every Query command a worker takes, it sends exactly one batch
\* (empty when nothing clears the floor) before it waits for the next
\* command: for every command the broadcast has sent, no batch exists while
\* the command is queued or being scanned, exactly one exists once the
\* worker is through with it, and none exists for a command not yet sent.
C2_OneBatchPerCommand ==
    \A c \in Callers : \A w \in Workers :
        (InQuery(c) \/ Returned(c)) =>
            IF SentTo(c, w)
              THEN BatchesFor(c, w) = (IF Pending(c, w) THEN 0 ELSE 1)
              ELSE BatchesFor(c, w) = 0 /\ ~Pending(c, w)

\* A worker with a piece in its shard is back in recv after a command, and
\* the batch it sent, still queued, is empty.
C2_Witness ==
    \E w \in Workers :
        /\ worker[w].pc = "recv"
        /\ shard[w] # <<>>
        /\ InQuery(1)
        /\ \E k \in 1..Len(outbox) :
              outbox[k].worker = w /\ outbox[k].results = <<>>

\* The positions of the input pieces that are the first with their hash.
FirstOccurrences(ps) ==
    { i \in 1..Len(ps) : \A j \in 1..(i - 1) : ps[j].hash # ps[i].hash }

\* The ids of the pieces of a sequence of pieces.
PieceIds(ps) == { ps[k].id : k \in 1..Len(ps) }

\* The least c with c * n >= u: ceil(u / n).
Ceil(u, n) == CHOOSE c \in 0..u : c * n >= u /\ (c = 0 \/ (c - 1) * n < u)

\* The shards one after the other, from worker 0 up to worker upto.
RECURSIVE ShardsInOrder(_)
ShardsInOrder(upto) ==
    IF upto < 0 THEN <<>> ELSE ShardsInOrder(upto - 1) \o shard[upto]

\* C7: after construction from U unique pieces and N workers the shards
\* partition the unique list: shard i holds exactly the pieces at indices
\* [i*chunk, min((i+1)*chunk, U)) with chunk = ceil(U/N), empty when
\* i*chunk >= U; shards are pairwise disjoint; their concatenation in worker
\* order is the unique list.  The shards never change afterwards.
C7_ShardsPartition ==
    LET u == UniquePieces(pieces)
        U == Len(u)
        chunk == Ceil(U, num_threads)
    IN  /\ \A i \in Workers :
              /\ Len(shard[i]) = Max(0, Min((i + 1) * chunk, U) - i * chunk)
              /\ \A k \in 1..Len(shard[i]) : shard[i][k] = u[i * chunk + k]
        /\ \A i, j \in Workers :
              i # j => PieceIds(shard[i]) \cap PieceIds(shard[j]) = {}
        /\ ShardsInOrder(num_threads - 1) = u

\* Three unique pieces over two workers: chunk is 2, worker 0 owns two
\* pieces and worker 1 the third.
C7_Witness ==
    /\ num_threads = 2
    /\ Len(UniquePieces(pieces)) = 3
    /\ Len(shard[0]) = 2
    /\ Len(shard[1]) = 1

\* C8: construction deduplicates the input pieces by content hash and keeps
\* first occurrences in input order: the unique list holds, for each
\* distinct hash, exactly the first input piece with that hash, and the kept
\* pieces stand in their input order.
C8_DedupFirstOccurrence ==
    LET u == UniquePieces(pieces)
    IN  /\ Len(u) = Cardinality(FirstOccurrences(pieces))
        /\ \A k \in 1..Len(u) :
              /\ u[k].id + 1 \in FirstOccurrences(pieces)
              /\ u[k] = pieces[u[k].id + 1]
        /\ \A k, l \in 1..Len(u) : k < l => u[k].id < u[l].id
        /\ ShardsInOrder(num_threads - 1) = u

\* Three input pieces of which the third repeats the hash of the first with
\* another piece between them: the unique list is the first two.
C8_Witness ==
    /\ Len(pieces) = 3
    /\ pieces[1].hash = pieces[3].hash
    /\ pieces[2].hash # pieces[1].hash
    /\ Len(UniquePieces(pieces)) = 2
    /\ PieceIds(ShardsInOrder(num_threads - 1)) = {0, 1}

\* The input pieces that survive deduplication: the first with each hash.
DedupSet == { pieces[i] : i \in FirstOccurrences(pieces) }

\* The sum of the products of the first k components of x and y.
RECURSIVE InnerProduct(_, _, _)
InnerProduct(x, y, k) ==
    IF k = 0 THEN 0 ELSE InnerProduct(x, y, k - 1) + (x[k] * y[k]) \div Unit

\* The dot product of embedding q with the embedding of piece p, both of one
\* length.
Relevance(q, p) == InnerProduct(q.data.v, p.embedding.data.v, q.n)

\* Embedding q has the length of every piece embedding: each score is the
\* dot product of two vectors of one length.
ScoresDefined(q) == \A i \in 1..Len(pieces) : pieces[i].embedding.n = q.n

\* The deduplicated pieces whose score for q exceeds 0.001.
Matches(q) == { p \in DedupSet : Relevance(q, p) * 1000 > Unit }

\* The piece ids of a sequence of results.
ResultIds(rs) == { rs[k].piece_id : k \in 1..Len(rs) }

\* C3: query(embedding, top_k) returns a sequence whose scores are
\* non-increasing, whose length is min(top_k, M) for M the number of
\* deduplicated pieces scoring more than 0.001, and whose members are
\* distinct pieces among those, each with its score, such that no omitted
\* piece above the floor scores strictly more than a returned one.
C3_TopKRanking ==
    (Returned(1) /\ ScoresDefined(call[1].query)) =>
        LET q == call[1].query
            ret == call[1].ret
            M == Matches(q)
        IN  /\ \A k \in 1..(Len(ret) - 1) : ret[k].score >= ret[k + 1].score
            /\ Len(ret) = Min(call[1].top_k, Cardinality(M))
            /\ \A k \in 1..Len(ret) :
                  \E p \in M : /\ p.id = ret[k].piece_id
                               /\ ret[k].score = Relevance(q, p)
            /\ \A k, l \in 1..Len(ret) :
                  k # l => ret[k].piece_id # ret[l].piece_id
            /\ \A p \in M :
                  p.id \notin ResultIds(ret) =>
                      \A k \in 1..Len(ret) : Relevance(q, p) <= ret[k].score

\* The example of the ranking: pieces [1,0,0], [0,1,0], [0.8,0.6,0] queried
\* with [1,0,0] and top_k = 2 give the first piece, then the third.
C3_Witness ==
    /\ Returned(1)
    /\ Len(pieces) = 3
    /\ pieces[1].content = 1 /\ pieces[2].content = 2 /\ pieces[3].content = 3
    /\ call[1].query = from_floats(<<10000, 0, 0>>)
    /\ call[1].top_k = 2
    /\ Len(call[1].ret) = 2
    /\ call[1].ret[1].piece_id = 0 /\ call[1].ret[1].score = 10000
    /\ call[1].ret[2].piece_id = 2 /\ call[1].ret[2].score = 8000

\* C4: every QueryResult query returns scores strictly more than 0.001, a
\* piece scoring exactly 0.001 or less is never returned, and for a query
\* embedding orthogonal to every piece embedding query returns the empty
\* sequence for any top_k.
C4_AboveFloorOnly ==
    Returned(1) =>
        LET q == call[1].query
            ret == call[1].ret
        IN  /\ \A k \in 1..Len(ret) : ret[k].score * 1000 > Unit
            /\ ScoresDefined(q) =>
                  \A i \in 1..Len(pieces) :
                      Relevance(q, pieces[i]) * 1000 <= Unit
                          => pieces[i].id \notin ResultIds(ret)
            /\ (ScoresDefined(q)
                /\ \A i \in 1..Len(pieces) : Relevance(q, pieces[i]) = 0)
                  => ret = <<>>

\* A call with top_k >= 1 whose every worker replied returns nothing for a
\* swarm that holds a piece scoring exactly 0.001.
C4_Witness ==
    /\ Returned(1)
    /\ call[1].top_k >= 1
    /\ Len(call[1].got) = num_threads
    /\ ScoresDefined(call[1].query)
    /\ \E i \in 1..Len(pieces) :
          Relevance(call[1].query, pieces[i]) * 1000 = Unit
    /\ call[1].ret = <<>>

\* C5: for a query whose score against every deduplicated piece exceeds the
\* floor, query with top_k = U, the number of unique pieces, returns exactly
\* the deduplicated piece set: every unique piece appears, none twice, and
\* no piece outside the set appears.
C5_FullCoverage ==
    LET q == call[1].query
        ret == call[1].ret
    IN  (/\ Returned(1)
         /\ ScoresDefined(q)
         /\ Matches(q) = DedupSet
         /\ call[1].top_k = Cardinality(DedupSet))
        => /\ Len(ret) = Cardinality(DedupSet)
           /\ ResultIds(ret) = { p.id : p \in DedupSet }

\* The whole deduplicated set returned: three input pieces of which one is a
\* duplicate, top_k = 2, both unique pieces returned.
C5_Witness ==
    /\ Returned(1)
    /\ Len(pieces) = 3
    /\ Cardinality(DedupSet) = 2
    /\ call[1].top_k = 2
    /\ Matches(call[1].query) = DedupSet
    /\ ResultIds(call[1].ret) = { p.id : p \in DedupSet }

\* C6: for a Swarm built from duplicate-free pieces, a query with any
\* piece's own embedding and top_k >= 1 returns that piece first or tied
\* with the first result on score, and its reported score is the dot
\* product of its embedding with itself.
C6_SelfQuery ==
    (/\ Returned(1)
     /\ call[1].top_k >= 1
     /\ Cardinality(FirstOccurrences(pieces)) = Len(pieces))
    => \A i \in 1..Len(pieces) :
          call[1].query = pieces[i].embedding =>
              \E k \in 1..Len(call[1].ret) :
                  /\ call[1].ret[k].piece_id = pieces[i].id
                  /\ call[1].ret[k].score = call[1].ret[1].score
                  /\ call[1].ret[k].score
                       = Relevance(pieces[i].embedding, pieces[i])

\* A piece of unit length returned first, with score 1.0, for its own
\* embedding.
C6_Witness ==
    /\ Returned(1)
    /\ Len(pieces) >= 2
    /\ Cardinality(FirstOccurrences(pieces)) = Len(pieces)
    /\ \E i \in 1..Len(pieces) :
          /\ call[1].query = pieces[i].embedding
          /\ call[1].ret # <<>>
          /\ call[1].ret[1].piece_id = pieces[i].id
          /\ call[1].ret[1].score = Unit

\* The batches of workers 0..upto one after the other: all_results of a
\* call whose batches arrive in worker order.
RECURSIVE InWorkerOrder(_, _)
InWorkerOrder(q, upto) ==
    IF upto < 0 THEN <<>>
    ELSE InWorkerOrder(q, upto - 1) \o ScanShard(q, shard[upto]).batch

\* The piece ids of a sequence of results, in order.
IdSeq(rs) == [k \in 1..Len(rs) |-> rs[k].piece_id]

\* C9: query results are deterministic given deterministic inputs: two
\* executions of query on Swarms built from the same pieces with the same
\* N, embedding and top_k return the same sequence of piece ids whatever
\* order the batches arrive in.  One of the two executions is the one whose
\* batches arrive in worker order: every call that gathered a batch from
\* each worker returns the ids that execution returns.
C9_Deterministic ==
    (Returned(1) /\ Len(call[1].got) = num_threads) =>
        IdSeq(call[1].ret)
          = IdSeq(Truncate(SortByScore(
                      InWorkerOrder(call[1].query, num_threads - 1)),
                  call[1].top_k))

\* The execution in worker order for two pieces of equal score in
\* different shards and top_k = 1: the piece of worker 0 is returned.
C9_Witness ==
    /\ Returned(1)
    /\ num_threads = 2
    /\ Len(pieces) = 2
    /\ pieces[1].content = 1 /\ pieces[2].content = 2
    /\ call[1].query = from_floats(<<7071, 7071, 0>>)
    /\ call[1].top_k = 1
    /\ Len(call[1].got) = 2
    /\ call[1].got[1].worker = 0
    /\ IdSeq(call[1].ret) = <<0>>

\* Worker w panicked while scanning for caller c's current call.
FailedOn(c, w) == worker[w].pc = "dead" /\ OfCall(c, worker[w].cmd)

\* Caller c waits in gather for a batch no thread will ever send: the
\* result channel is empty, a sender lives, and every living worker waits
\* for a command with nothing queued.
Blocked(c) ==
    /\ call[c].pc = "gather"
    /\ call[c].i < GatherCount
    /\ outbox = <<>>
    /\ ~AllSendersGone
    /\ \A w \in Workers :
          ReceiverGone(w) \/ (worker[w].pc = "recv" /\ inbox[w] = <<>>)

\* C10: when the dot product fails inside a worker while scoring a piece,
\* the query call ends with a query-level failure: it neither returns a
\* ranking that omits pieces nor blocks forever in gather.
C10_QueryLevelFailure ==
    \A w \in Workers :
        FailedOn(1, w) => ~Returned(1) /\ ~Blocked(1)

\* A worker failed on the call's command and the call is blocked in gather
\* for ever, the other worker having replied.
C10_Witness ==
    /\ num_threads = 2
    /\ FailedOn(1, 0)
    /\ Blocked(1)
    /\ Len(call[1].got) = 1

\* C11: when a worker has terminated (its inbound queue is closed) before
\* or during a query, the query call fails as a whole: it does not return a
\* ranking computed only from the remaining shards, and it does not wait
\* for ever for the missing batch.
C11_LostShardFailsQuery ==
    (~dropped /\ \E w \in Workers : ReceiverGone(w)) =>
        ~Returned(1) /\ ~Blocked(1)

\* Every worker terminated before the call started; the call sent its
\* command to closed queues and returned the empty ranking although a piece
\* scores above the floor.
C11_Witness ==
    /\ Returned(1)
    /\ \A w \in Workers : ReceiverGone(w) /\ ~OfCall(1, worker[w].cmd)
    /\ ScoresDefined(call[1].query)
    /\ Matches(call[1].query) # {}
    /\ call[1].top_k >= 1
    /\ call[1].ret = <<>>

\* C12: a worker thread leaves its receive loop and exits only when its
\* inbound queue is closed (all send-handles dropped): a worker that has
\* terminated had its inbound queue closed first, and no Query command makes
\* a worker terminate.
C12_ExitOnlyAfterClose ==
    [][\A w \in Workers :
          (~ReceiverGone(w) /\ ReceiverGone(w)') =>
              (dropped /\ worker[w].pc = "recv" /\ inbox[w] = <<>>)]_vars

\* A worker that left its loop on the Err of recv after the Swarm was
\* dropped.
C12_Witness ==
    /\ dropped
    /\ \E w \in Workers : worker[w].pc = "exited"

\* C13: once the Swarm is dropped (all inbound send-endpoints closed),
\* every worker eventually exits: it finishes the commands already in its
\* inbound queue, its next blocking receive fails, and the thread
\* terminates; no worker stays parked for ever after the drop.
C13_WorkersExitAfterDrop ==
    dropped ~> (\A w \in Workers : ReceiverGone(w))

\* The Swarm dropped with both of its two workers exited through the Err
\* of recv.
C13_Witness ==
    /\ dropped
    /\ num_threads = 2
    /\ \A w \in Workers : worker[w].pc = "exited"

\* A Value as the constructors of k.rs build it: an atom has count 1, the
\* count is the payload's length, the payload's variant is that of the
\* type, and a list holds such Values.
RECURSIVE WellFormed(_)
WellFormed(a) ==
    /\ a.t \in -2..2
    /\ a.n = Len(a.data.v)
    /\ a.t < 0 => a.n = 1
    /\ a.data.tag = (CASE Abs(a.t) = 0 -> "List"
                       [] Abs(a.t) = 1 -> "Ints"
                       [] Abs(a.t) = 2 -> "Floats")
    /\ a.t = 0 => \A i \in 1..Len(a.data.v) : WellFormed(a.data.v[i])

\* A call of verb has been made.
Called(verb) == va.verb = verb

\* C14: type resolution classifies failures as stated: for any two Values
\* resolve fails with LengthError when both are atoms or both are lists and
\* their counts differ; otherwise it fails with ShapeError, a kind distinct
\* from LengthError, when the counts differ and neither is 1; otherwise it
\* succeeds.
C14_ResolveErrorKinds ==
    Called("scalar_init") =>
        LET a == va.a
            b == va.b
            r == va.res
        IN  IF ((a.t < 0 /\ b.t < 0) \/ (a.t = 0 /\ b.t = 0)) /\ a.n # b.n
              THEN ~r.ok /\ ErrorKind(r.err) = "length error"
            ELSE IF a.n # b.n /\ a.n # 1 /\ b.n # 1
              THEN ~r.ok /\ ErrorKind(r.err) = "shape error"
            ELSE r.ok

\* Resolve called on a float array of 3 and a float array of 2: it fails.
C14_Witness ==
    /\ Called("scalar_init")
    /\ va.a.t = 2 /\ va.a.n = 3
    /\ va.b.t = 2 /\ va.b.n = 2
    /\ ~va.res.ok

\* C15: for every pair of well-formed Values accepted by resolve,
\* out_count = max(an, bn) and out_type is 0 if either operand is a list,
\* otherwise of magnitude max(|at|, |bt|), negative (atom) exactly when
\* out_count = 1 and both operands are atoms, positive (array) in every
\* other case, an array of length 1 with an atom included.
C15_ResolveOutput ==
    (Called("scalar_init") /\ WellFormed(va.a) /\ WellFormed(va.b)
     /\ va.res.ok) =>
        LET at == va.a.t
            bt == va.b.t
            an == va.a.n
            bn == va.b.n
            r == va.res
            m == IF Abs(at) >= Abs(bt) THEN Abs(at) ELSE Abs(bt)
        IN  /\ r.zn = (IF an >= bn THEN an ELSE bn)
            /\ (at = 0 \/ bt = 0) => r.zt = 0
            /\ (at # 0 /\ bt # 0) =>
                  /\ Abs(r.zt) = m
                  /\ (r.zt < 0) <=> (r.zn = 1 /\ at < 0 /\ bt < 0)
                  /\ (r.zt > 0) <=> ~(r.zn = 1 /\ at < 0 /\ bt < 0)

\* Resolve of an integer array of length 1 with a float atom: a float array
\* of count 1.
C15_Witness ==
    /\ Called("scalar_init")
    /\ va.a = from_ints(<<3>>)
    /\ va.b = kf(5000)
    /\ va.res.ok
    /\ va.res.zt = 2
    /\ va.res.zn = 1

\* C16: type resolution is commutative for out_count: for all pairs of
\* Values resolve(a,b) succeeds exactly when resolve(b,a) succeeds, and when
\* they succeed both give the same out_count.
C16_ResolveCommutes ==
    Called("scalar_init") =>
        LET r == va.res
            swapped == scalar_init(va.b, va.a)
        IN  /\ r.ok = swapped.ok
            /\ r.ok => r.zn = swapped.zn

\* Resolve accepted a float atom with an integer array of 3: out_count 3,
\* as for the array with the atom.
C16_Witness ==
    /\ Called("scalar_init")
    /\ va.a.t = -2
    /\ va.b.t = 1 /\ va.b.n = 3
    /\ va.res.ok
    /\ va.res.zn = 3
    /\ scalar_init(va.b, va.a).ok

\* v is a float array of more than one element.
IsLongFloatArray(v) ==
    v.t = 2 /\ v.n > 1 /\ v.data.tag = "Floats" /\ Len(v.data.v) = v.n

\* s is a float atom.
IsFloatAtom(s) ==
    s.t = -2 /\ s.n = 1 /\ s.data.tag = "Floats" /\ Len(s.data.v) = 1

\* r is the float array of v's count whose element i is v[i] * s.
IsScaled(r, v, s) ==
    /\ r.ok
    /\ r.k.t = 2
    /\ r.k.n = v.n
    /\ r.k.data.tag = "Floats"
    /\ Len(r.k.data.v) = v.n
    /\ \A i \in 1..v.n : r.k.data.v[i] = FMul(v.data.v[i], s.data.v[1])

\* C17: broadcasting identity: for any float array v of length n > 1 and
\* float atom s, multiply(v, s) and multiply(s, v) both return a float array
\* (positive type) of count n whose element i equals v[i] * s.
C17_BroadcastIdentity ==
    Called("times") =>
        /\ (IsLongFloatArray(va.a) /\ IsFloatAtom(va.b)) =>
              IsScaled(va.res, va.a, va.b)
        /\ (IsFloatAtom(va.a) /\ IsLongFloatArray(va.b)) =>
              IsScaled(va.res, va.b, va.a)

\* multiply(s, v) of the atom 0.5 and the array [-1.5, 0.5, 0.5] returned
\* [-0.75, 0.25, 0.25].
C17_Witness ==
    /\ Called("times")
    /\ va.a = kf(5000)
    /\ va.b = from_floats(<<-15000, 5000, 5000>>)
    /\ va.res.ok
    /\ va.res.k = from_floats(<<-7500, 2500, 2500>>)

\* a is a numeric Value: an integer or float atom or array.
IsNumeric(a) ==
    /\ Abs(a.t) \in {1, 2}
    /\ a.data.tag = (IF Abs(a.t) = 1 THEN "Ints" ELSE "Floats")
    /\ Len(a.data.v) = a.n

\* Element i of a, converted to float when the product is a float one.
ElemAs(a, i, float) ==
    IF float /\ Abs(a.t) = 1 THEN a.data.v[i] * Unit ELSE a.data.v[i]

\* a[i] * b[j], a float product unless both operands are of integer kind.
ProductAt(a, i, b, j) ==
    LET float == ~(Abs(a.t) = 1 /\ Abs(b.t) = 1)
        x == ElemAs(a, i, float)
        y == ElemAs(b, j, float)
    IN  IF float THEN (x * y) \div Unit ELSE x * y

\* The sum over i <= n of a[i] * b[i].
RECURSIVE SumOfProducts(_, _, _)
SumOfProducts(a, b, n) ==
    IF n = 0 THEN 0 ELSE SumOfProducts(a, b, n - 1) + ProductAt(a, n, b, n)

\* C18: for numeric operands a, b of equal count n (int or float, atom or
\* array), dot(a,b) returns a single atom (count 1, negative type) whose
\* value is the sum over i < n of a[i]*b[i], integers converted with i2f
\* when the other operand is float; the atom is an integer atom exactly when
\* both operands are of integer kind and a float atom otherwise.
C18_DotIsSumOfProducts ==
    (Called("dot") /\ IsNumeric(va.a) /\ IsNumeric(va.b) /\ va.a.n = va.b.n) =>
        LET ints == Abs(va.a.t) = 1 /\ Abs(va.b.t) = 1
            r == va.res
        IN  /\ r.ok
            /\ r.k.n = 1
            /\ r.k.t = (IF ints THEN -1 ELSE -2)
            /\ r.k.data.tag = (IF ints THEN "Ints" ELSE "Floats")
            /\ r.k.data.v = <<SumOfProducts(va.a, va.b, va.a.n)>>

\* dot of the integer array [3, -2] with the float array [0.5, -1.5]
\* returned the float atom 4.5.
C18_Witness ==
    /\ Called("dot")
    /\ va.a = from_ints(<<3, -2>>)
    /\ va.b = from_floats(<<5000, -15000>>)
    /\ va.res.ok
    /\ va.res.k = kf(45000)

\* C19: dot is commutative on numeric operands: for every pair of numeric
\* Values (int or float, atom or array, equal counts or one of count 1)
\* accepted by resolve, dot(a,b) and dot(b,a) return atoms of the same kind
\* and the same value.
C19_DotCommutes ==
    (/\ Called("dot")
     /\ IsNumeric(va.a) /\ IsNumeric(va.b)
     /\ (va.a.n = va.b.n \/ va.a.n = 1 \/ va.b.n = 1)
     /\ scalar_init(va.a, va.b).ok) =>
        LET r == va.res
            swapped == dot(va.b, va.a)
        IN  /\ r.ok /\ r.k.t < 0 /\ r.k.n = 1
            /\ swapped.ok
            /\ swapped.k = r.k

\* dot of an empty float array with a float atom, which resolve accepts,
\* ended in an element access out of range.
C19_Witness ==
    /\ Called("dot")
    /\ va.a = from_floats(<<>>)
    /\ va.b = kf(5000)
    /\ scalar_init(va.a, va.b).ok
    /\ ~va.res.ok
    /\ va.res.err = "index out of bounds"

\* a is a list Value.
IsList(a) == a.t = 0 /\ a.data.tag = "List" /\ Len(a.data.v) = a.n

\* C20: list recursion: for two lists of equal length n, multiply(a,b) is
\* the list of length n whose element i is multiply(a[i], b[i]), applied
\* recursively to nested lists; for two lists of unequal length multiply
\* fails with LengthError.
C20_ListRecursion ==
    (Called("times") /\ IsList(va.a) /\ IsList(va.b)) =>
        LET n == va.a.n
            r == va.res
            elem(i) == times(va.a.data.v[i], va.b.data.v[i])
        IN  IF va.a.n = va.b.n
              THEN /\ r.ok <=> \A i \in 1..n : elem(i).ok
                   /\ r.ok =>
                        /\ r.k.t = 0
                        /\ r.k.n = n
                        /\ r.k.data.tag = "List"
                        /\ Len(r.k.data.v) = n
                        /\ \A i \in 1..n : r.k.data.v[i] = elem(i).k
              ELSE ~r.ok /\ ErrorKind(r.err) = "length error"

\* multiply of the nested list [[3, 0.5], -1.5] with [[3, 0.5], [3, 0.5]]
\* returned [[9, 0.25], [-4.5, -0.75]].
C20_Witness ==
    /\ Called("times")
    /\ va.a = from_list(<<from_list(<<ki(3), kf(5000)>>), kf(-15000)>>)
    /\ va.b = from_list(<<from_list(<<ki(3), kf(5000)>>),
                          from_list(<<ki(3), kf(5000)>>)>>)
    /\ va.res.ok
    /\ va.res.k = from_list(<<from_list(<<ki(9), kf(2500)>>),
                              from_list(<<kf(-45000), kf(-7500)>>)>>)

\* Some flat numeric leaf of k is a float.
RECURSIVE HasFloatLeaf(_)
HasFloatLeaf(k) ==
    IF k.data.tag = "List"
      THEN \E i \in 1..Len(k.data.v) : HasFloatLeaf(k.data.v[i])
      ELSE k.data.tag = "Floats" /\ k.data.v # <<>>

\* The number of flat numeric leaves of k.
RECURSIVE LeafCount(_)
LeafCount(k) ==
    IF k.data.tag = "List"
      THEN SeqSum([i \in 1..Len(k.data.v) |-> LeafCount(k.data.v[i])])
      ELSE Len(k.data.v)

\* The sum of the flat numeric leaves of k, integer leaves taken as floats
\* when float is TRUE.
RECURSIVE LeafSum(_, _)
LeafSum(k, float) ==
    IF k.data.tag = "List"
      THEN SeqSum([i \in 1..Len(k.data.v) |-> LeafSum(k.data.v[i], float)])
    ELSE IF float /\ k.data.tag = "Ints"
      THEN SeqSum([i \in 1..Len(k.data.v) |-> k.data.v[i] * Unit])
    ELSE SeqSum(k.data.v)

\* C21: when either operand is a list, dot(a,b) equals the sum of all flat
\* numeric leaves of multiply(a,b): for a list of numeric atoms and a numeric
\* atom, or two equal-length lists of numeric atoms, dot returns an atom
\* holding the sum of the element products; it fails with TypeError only
\* when the product has no numeric leaves to sum.
C21_DotOverLists ==
    (Called("dot") /\ (IsList(va.a) \/ IsList(va.b))
     /\ times(va.a, va.b).ok) =>
        LET product == times(va.a, va.b).k
            float == HasFloatLeaf(product)
            r == va.res
        IN  IF LeafCount(product) > 0
              THEN /\ r.ok
                   /\ r.k.t < 0
                   /\ r.k.n = 1
                   /\ r.k.data.v = <<LeafSum(product, float)>>
              ELSE ~r.ok

\* dot of the list [3, 0.5] with the integer atom 3, whose product is the
\* list [9, 1.5], did not return.
C21_Witness ==
    /\ Called("dot")
    /\ va.a = from_list(<<ki(3), kf(5000)>>)
    /\ va.b = ki(3)
    /\ times(va.a, va.b).ok
    /\ times(va.a, va.b).k = from_list(<<ki(9), kf(15000)>>)
    /\ ~va.res.ok
    /\ va.res.err = "dot: cannot sum general list"

\* One of the four verbs has been called.
CalledAVerb == va.verb \in {"times", "plus", "minus", "dot"}

\* C22: for well-formed numeric operands (atoms or arrays, arrays of count 0
\* included) whose counts are equal or one of which is 1, multiply, add,
\* subtract and dot complete and return a Value; the only ways these
\* operations fail are LengthError, ShapeError and TypeError, never an
\* out-of-range element access.
C22_NoOutOfRangeAccess ==
    (/\ CalledAVerb
     /\ IsNumeric(va.a) /\ WellFormed(va.a)
     /\ IsNumeric(va.b) /\ WellFormed(va.b)) =>
        /\ (va.a.n = va.b.n \/ va.a.n = 1 \/ va.b.n = 1) => va.res.ok
        /\ ~va.res.ok =>
              ErrorKind(va.res.err) \in {"length error", "shape error", "type error"}

\* multiply of the integer atom 3 with an empty integer array ended in an
\* element access out of range.
C22_Witness ==
    /\ Called("times")
    /\ va.a = ki(3)
    /\ va.b = from_ints(<<>>)
    /\ ~va.res.ok
    /\ va.res.err = "index out of bounds"

\* multiply, add or subtract has been called.
CalledElementwise == va.verb \in {"times", "plus", "minus"}

\* C26: every Value returned by multiply, add or subtract on well-formed
\* operands is itself well-formed and agrees with type resolution: its count
\* equals its payload length and equals resolve(a,b).out_count, its
\* type_code equals resolve(a,b).out_type, its payload variant matches
\* |type_code|, and an atom result has count 1; this holds for numeric pairs
\* and for a list paired with a non-list or with another list.
C26_ResultAgreesWithResolve ==
    (CalledElementwise /\ WellFormed(va.a) /\ WellFormed(va.b) /\ va.res.ok) =>
        LET s == scalar_init(va.a, va.b)
            z == va.res.k
        IN  /\ WellFormed(z)
            /\ s.ok
            /\ z.n = s.zn
            /\ z.t = s.zt

\* add of the list [3] with the integer array [-2, 3] returned the list
\* [[1, 6]] of count 1, where type resolution gives out_count 2.
C26_Witness ==
    /\ Called("plus")
    /\ va.a = from_list(<<ki(3)>>)
    /\ va.b = from_ints(<<-2, 3>>)
    /\ va.res.ok
    /\ va.res.k = from_list(<<from_ints(<<1, 6>>)>>)
    /\ scalar_init(va.a, va.b).zn = 2

\* No worker thread has ended.
AllWorkersAlive == \A w \in Workers : ~ReceiverGone(w)

\* Nothing is in flight: every queue is empty and every worker waits in recv.
Quiescent ==
    /\ outbox = <<>>
    /\ \A w \in Workers : inbox[w] = <<>> /\ worker[w].pc = "recv"

\* Caller c is at the entry of query, or outside it.
AtCallBoundary(c) ==
    \/ call[c].pc \in {"idle", "returned"}
    \/ call[c].pc = "broadcast" /\ call[c].i = 0

\* C23: under single-coordinator sequential use with all workers alive,
\* every batch a query's gather consumes was produced by a worker in reply
\* to that same query's command, and the shared outbound queue and every
\* inbound queue are empty both when a query call starts and when it
\* returns.  Nothing being in flight when the call starts, a batch consumed
\* for this call's embedding was produced after the call's own broadcast.
C23_SequentialIsolation ==
    AllWorkersAlive =>
        /\ AtCallBoundary(1) => Quiescent
        /\ \A k \in 1..Len(call[1].got) :
              /\ OfCall(1, call[1].got[k])
              /\ \A m \in 1..Len(call[1].got) :
                    call[1].got[m].worker = call[1].got[k].worker => m = k

\* A call on a Swarm of two workers returned with both alive: it consumed
\* one batch of each, and the queues are empty.
C23_Witness ==
    /\ Returned(1)
    /\ AllWorkersAlive
    /\ ~dropped
    /\ num_threads = 2
    /\ Len(call[1].got) = 2
    /\ call[1].ret # <<>>
    /\ Quiescent

\* The results of the first k batches caller c gathered, each batch being
\* the scan of its worker's shard for the embedding it was produced for.
RECURSIVE GatheredResults(_, _)
GatheredResults(c, k) ==
    IF k = 0 THEN <<>>
    ELSE GatheredResults(c, k - 1)
         \o ScanShard(call[c].got[k].query, shard[call[c].got[k].worker]).batch

\* Caller c gathered a batch produced for the other caller's embedding.
TookForeignBatch(c) ==
    \E k \in 1..Len(call[c].got) :
        /\ call[c].got[k].from # c
        /\ call[c].got[k].query # call[c].query

\* Caller c gathered two batches of one worker.
TookTwoOfOneWorker(c) ==
    \E k, m \in 1..Len(call[c].got) :
        k # m /\ call[c].got[k].worker = call[c].got[m].worker

C25_QueryReturns ==
    (InQuery(1) /\ AllWorkersAlive /\ ScoresDefined(call[1].query))
        ~> Returned(1)

\* A call with top_k = 0 on a Swarm of two workers and no piece returned,
\* both workers alive, after one batch of each.
C25_Witness ==
    /\ Returned(1)
    /\ AllWorkersAlive
    /\ pieces = <<>>
    /\ num_threads = 2
    /\ call[1].top_k = 0
    /\ Len(call[1].got) = 2

=============================================================================
